---------------------------- MODULE Spec2Model ----------------------------
(***************************************************************************)
(* A model of the metric, decoding and checkpoint helpers of               *)
(* maskexp/model/tools.py and of the training loop of                      *)
(* maskexp/model/train.py.                                                 *)
(*                                                                         *)
(* Tensors are flat sequences of positions (boolean-mask indexing flattens *)
(* the leading dimensions in row-major order); a logits row is a sequence  *)
(* of VocabSize scores, class id c being held at index c + 1.  Python's    *)
(* None is modelled by a "given" flag beside each optional argument, a     *)
(* raised exception by a result of kind "raise", a float that is a mean of *)
(* 0/1 values by the fraction num/den, and float('nan') by kind "nan".     *)
(***************************************************************************)
EXTENDS Integers, Sequences, FiniteSets, TLC

VARIABLES harness,  \* which entry point of the repository is being driven
          logits,   \* the logits tensor, one row per flattened position
          labels,   \* the labels tensor, one label per flattened position
          masks,    \* the mask-state tensor, one code per flattened position
          batch,    \* the first dimension of logits (number of sequences)
          call,     \* the last call made: function and arguments
          ret,      \* what that call returned or raised
          cfg,      \* the ExpConfig handed to save_checkpoint
          run,      \* the caller's loss lists of the current run
          disk,     \* the checkpoint file last written by tools.save_checkpoint
          tr        \* the state of train_mlm

vars == <<harness, logits, labels, masks, batch, call, ret, cfg, run, disk, tr>>

---------------------------------------------------------------------------
(* Bounds of the model.                                                    *)

NumPos == 2        \* flattened positions of a batch
VocabSize == 2     \* classes of the vocabulary (last dimension of logits)
MaxN == 1          \* largest tolerance n passed to accuracy_within_n
MaxRun == 2        \* epochs of the run that calls tools.save_checkpoint
MaxSaves == 2      \* checkpoints written by that run
MaxEpochs == 3     \* largest cfg.n_epochs
MaxIntv == 2       \* largest cfg.eval_intv
MaxBatches == 1    \* largest length of a data loader

(* Values of the program.                                                  *)

IGNORE_LABEL_INDEX == -100   \* maskexp.definitions (label of unmasked positions)
MaskCodes == {0, 1, 2}       \* 0 = not masked, 1 = generic mask, 2 = velocity mask
K_DEFAULT == 3               \* hits_at_k(..., k=3, ...)
N_DEFAULT == 1               \* accuracy_within_n(..., n=1, ...)
NDEBUG == TRUE

Vocab == 0..(VocabSize - 1)
Pos == 1..NumPos

(* Rows with pairwise distinct scores: every class is the argmax of one.   *)
LogitRows == {[c \in 1..VocabSize |-> (c - 1 + r) % VocabSize] : r \in 0..(VocabSize - 1)}

---------------------------------------------------------------------------
(* Results.                                                                *)

NoEvents == <<>>

Result(kind, exc, num, den, sel, reads, loss, events) ==
    [kind |-> kind, exc |-> exc, num |-> num, den |-> den, sel |-> sel,
     reads |-> reads, loss |-> loss, events |-> events]

NoResult == Result("none", "", 0, 0, <<>>, {}, <<>>, NoEvents)
Raise(exc, reads) == Result("raise", exc, 0, 0, <<>>, reads, <<>>, NoEvents)
NaN(sel, reads) == Result("nan", "", 0, 0, sel, reads, <<>>, NoEvents)
IntZero(sel, reads) == Result("int", "", 0, 1, sel, reads, <<>>, NoEvents)
Mean(num, sel, reads) == Result("float", "", num, Len(sel), sel, reads, <<>>, NoEvents)

---------------------------------------------------------------------------
(* Tensor primitives of the numeric backend.                               *)

\* The ascending indices of the true entries of a boolean mask: the order in
\* which t[mask] lists the selected elements.
TrueIdx(m) ==
    LET F[i \in 0..Len(m)] ==
            IF i = 0 THEN <<>>
            ELSE IF m[i] THEN Append(F[i - 1], i) ELSE F[i - 1]
    IN F[Len(m)]

\* t[mask]
Gather(t, idx) == [j \in 1..Len(idx) |-> t[idx[j]]]

\* A mutant of Greater: greater_equal in place of greater.
GreaterEqual(m, x) == [i \in 1..Len(m) |-> m[i] >= x]

\* torch.greater(masks, 0)
Greater(m, x) == [i \in 1..Len(m) |-> m[i] > x]

\* A mutant of IsIn: a threshold at the least code in place of membership.
IsInThreshold(m, s) == [i \in 1..Len(m) |-> \E x \in s : m[i] >= x]

\* torch.isin(masks, consider_mask)
IsIn(m, s) == [i \in 1..Len(m) |-> m[i] \in s]

\* The number of classes that precede class index c (1-based) in descending
\* order of score.
Rank(row, c) == Cardinality({d \in 1..Len(row) : row[d] > row[c] \/ (row[d] = row[c] /\ d < c)})

\* row.argmax(): a class id
ArgMax(row) == (CHOOSE c \in 1..Len(row) : Rank(row, c) = 0) - 1

\* torch.topk(row, k).indices, for 0 <= k <= Len(row): class ids
TopK(row, k) == [j \in 1..k |-> (CHOOSE c \in 1..Len(row) : Rank(row, c) = j - 1) - 1]

\* F.softmax(row, dim=-1), up to the common positive factor 1 / sum
SoftMax(row) == [c \in 1..Len(row) |-> 2 ^ row[c]]

Abs(x) == IF x < 0 THEN -x ELSE x

---------------------------------------------------------------------------
(* The metrics of tools.py.  Every result carries two ghost fields: sel,   *)
(* the flattened positions the metric evaluated, and reads, the tensor     *)
(* arguments the call had read when it returned or raised.                 *)

MetricReads(considerGiven) ==
    {"masks", "logits", "labels"} \cup (IF considerGiven THEN {"consider_mask"} ELSE {})

\* A mutant of cross_entropy_loss: the empty selection is not returned
\* early, and the library's mean over no element is nan.
cross_entropy_loss_unguarded(lg, lb, masksGiven, mk, considerGiven, cm) ==
    IF ~masksGiven
    THEN Raise("ValueError", {})
    ELSE LET valid_mask == IF ~considerGiven THEN Greater(mk, 0) ELSE IsIn(mk, cm)
             sel == TrueIdx(valid_mask)
             valid_logits == Gather(lg, sel)
             valid_labels == Gather(lb, sel)
             reads == MetricReads(considerGiven)
         IN  IF Len(valid_logits) * VocabSize = 0
             THEN NaN(sel, reads)
             ELSE Result("loss", "", 0, Len(sel), sel, reads,
                         [j \in 1..Len(sel) |-> <<valid_logits[j], valid_labels[j]>>],
                         NoEvents)

cross_entropy_loss(lg, lb, masksGiven, mk, considerGiven, cm) ==
    IF ~masksGiven
    THEN Raise("ValueError", {})
    ELSE LET valid_mask == IF ~considerGiven THEN Greater(mk, 0) ELSE IsIn(mk, cm)
             sel == TrueIdx(valid_mask)
             valid_logits == Gather(lg, sel)
             valid_labels == Gather(lb, sel)
             reads == MetricReads(considerGiven)
         IN  IF Len(valid_logits) * VocabSize = 0
             THEN IntZero(sel, reads)
             \* nn.CrossEntropyLoss()(valid_logits, valid_labels).item(): the
             \* library's loss of these (row, label) pairs, left uninterpreted
             ELSE Result("loss", "", 0, Len(sel), sel, reads,
                         [j \in 1..Len(sel) |-> <<valid_logits[j], valid_labels[j]>>],
                         NoEvents)

hits_at_k(lg, lb, k, masksGiven, mk, considerGiven, cm) ==
    IF ~masksGiven
    THEN Raise("ValueError", {})
    ELSE LET valid_mask == IF ~considerGiven THEN Greater(mk, 0) ELSE IsIn(mk, cm)
             sel == TrueIdx(valid_mask)
             valid_logits == Gather(lg, sel)
             valid_labels == Gather(lb, sel)
             reads == MetricReads(considerGiven)
         IN  IF Len(valid_labels) = 0
             THEN NaN(sel, reads)
             \* torch.topk raises when k is out of the range of the dimension
             ELSE IF k < 0 \/ k > Len(valid_logits[1])
             THEN Raise("RuntimeError", reads)
             ELSE LET hit(j) == \E t \in 1..k : TopK(valid_logits[j], k)[t] = valid_labels[j]
                  IN  Mean(Cardinality({j \in 1..Len(sel) : hit(j)}), sel, reads)

accuracy_within_n(lg, lb, n, masksGiven, mk, considerGiven, cm) ==
    IF ~masksGiven
    THEN Raise("ValueError", {})
    ELSE LET valid_mask == IF ~considerGiven THEN Greater(mk, 0) ELSE IsIn(mk, cm)
             sel == TrueIdx(valid_mask)
             valid_logits == Gather(lg, sel)
             valid_labels == Gather(lb, sel)
             reads == MetricReads(considerGiven)
         IN  IF Len(valid_labels) = 0
             THEN NaN(sel, reads)
             ELSE LET valid_pred == [j \in 1..Len(sel) |-> ArgMax(valid_logits[j])]
                      ok(j) == Abs(valid_pred[j] - valid_labels[j]) <= n
                  IN  Mean(Cardinality({j \in 1..Len(sel) : ok(j)}), sel, reads)

---------------------------------------------------------------------------
(* bind_metric.  Keyword arguments are a sequence of <<key, value>> pairs  *)
(* in keyword order; the values bound here are integers.                   *)

Digits == <<"0", "1", "2", "3", "4", "5", "6", "7", "8", "9">>

RECURSIVE NatStr(_)
NatStr(x) == IF x < 10 THEN Digits[x + 1] ELSE NatStr(x \div 10) \o Digits[(x % 10) + 1]

\* str(value) for an int
IntStr(x) == IF x < 0 THEN "-" \o NatStr(-x) ELSE NatStr(x)

\* "_".join(f"{key}{value}" for key, value in kwargs.items())
RECURSIVE JoinArgs(_)
JoinArgs(kw) ==
    IF Len(kw) = 0 THEN ""
    ELSE IF Len(kw) = 1 THEN kw[1][1] \o IntStr(kw[1][2])
    ELSE kw[1][1] \o IntStr(kw[1][2]) \o "_" \o JoinArgs(Tail(kw))

\* A mutant of bind_metric: the name leaves the bound values out.
bind_metric_keys_only(func, kw) ==
    [func |-> func, kwargs |-> kw,
     name |-> func \o "_" \o JoinArgs([i \in 1..Len(kw) |-> <<kw[i][1], 0>>])]

bind_metric(func, kw) ==
    [func |-> func, kwargs |-> kw, name |-> func \o "_" \o JoinArgs(kw)]

HasKey(kw, key) == \E i \in 1..Len(kw) : kw[i][1] = key
Lookup(kw, key, default) ==
    IF HasKey(kw, key) THEN kw[CHOOSE i \in 1..Len(kw) : kw[i][1] = key][2] ELSE default

\* The integer keyword parameters of each metric.
IntParams(func) ==
    IF func = "hits_at_k" THEN {"k"}
    ELSE IF func = "accuracy_within_n" THEN {"n"}
    ELSE {}

\* func(logits, labels, masks=..., consider_mask=..., **kw): Python's call of
\* a metric with keyword arguments, defaults filling what kw leaves out
CallMetric(func, kw, lg, lb, masksGiven, mk, considerGiven, cm) ==
    IF \E i \in 1..Len(kw) : kw[i][1] \notin IntParams(func)
    THEN Raise("TypeError", {})
    ELSE IF func = "hits_at_k"
    THEN hits_at_k(lg, lb, Lookup(kw, "k", K_DEFAULT), masksGiven, mk, considerGiven, cm)
    ELSE IF func = "accuracy_within_n"
    THEN accuracy_within_n(lg, lb, Lookup(kw, "n", N_DEFAULT), masksGiven, mk, considerGiven, cm)
    ELSE cross_entropy_loss(lg, lb, masksGiven, mk, considerGiven, cm)

\* functools.partial(func, **kwargs)(logits, labels, masks=..., consider_mask=...)
PartialCall(p, lg, lb, masksGiven, mk, considerGiven, cm) ==
    CallMetric(p.func, p.kwargs, lg, lb, masksGiven, mk, considerGiven, cm)

---------------------------------------------------------------------------
(* The decoders of tools.py.  The decoder (vocabulary) is a collaborator:  *)
(* decode_event(x) is recorded as the event of the argument it was given,  *)
(* which is a class id or a list of class ids.                             *)

IdArg(id) == [is_list |-> FALSE, id |-> id, ids |-> <<>>]
ListArg(ids) == [is_list |-> TRUE, id |-> 0, ids |-> ids]
decode_event(arg) == [event_of |-> arg]

Events(ev) == Result("events", "", 0, 0, <<>>, {"logits"}, <<>>, ev)

\* torch.argmax(F.softmax(logits, dim=-1), dim=-1).tolist() of a logits tensor
\* of b sequences: a list of b lists of class ids
PredIds(lg, b) ==
    LET t == Len(lg) \div b
    IN  [s \in 1..b |-> [i \in 1..t |-> ArgMax(SoftMax(lg[(s - 1) * t + i]))]]

decode_batch_perf_logits(lg, b, decoderGiven, idxGiven, idx) ==
    IF ~decoderGiven
    THEN Raise("ValueError", {})
    ELSE IF ~idxGiven
    THEN LET pred_ids == PredIds(lg, b)
         IN  Events([j \in 1..Len(pred_ids) |-> decode_event(ListArg(pred_ids[j]))])
    \* [idx, :] of a tensor whose first dimension is b
    ELSE IF idx < -b \/ idx >= b
    THEN Raise("IndexError", {"logits"})
    ELSE LET row == IF idx < 0 THEN idx + b + 1 ELSE idx + 1
             pred_ids == PredIds(lg, b)[row]
         IN  Events([j \in 1..Len(pred_ids) |-> decode_event(IdArg(pred_ids[j]))])

\* A mutant of decode_perf_logits: the decoder is not checked, and the first
\* decode_event fails on None after the logits were read.
decode_perf_logits_unchecked(lg, b, decoderGiven) ==
    LET pred_ids == PredIds(lg, b)
    IN  IF ~decoderGiven
        THEN Raise("AttributeError", {"logits"})
        ELSE Events([j \in 1..Len(pred_ids[1]) |-> decode_event(IdArg(pred_ids[1][j]))])

decode_perf_logits(lg, b, decoderGiven) ==
    IF ~decoderGiven
    THEN Raise("ValueError", {})
    ELSE LET pred_ids == PredIds(lg, b)
         IN  Events([j \in 1..Len(pred_ids[1]) |-> decode_event(IdArg(pred_ids[1][j]))])

---------------------------------------------------------------------------
(* save_checkpoint of tools.py.  Dictionaries are functions from the key   *)
(* to the value; a list held by a dictionary or passed as an argument is   *)
(* an object, so the operator returns the configuration as the call leaves *)
(* it beside what the call wrote and returned.                             *)

\* d1 | d2
DictOr(d1, d2) ==
    [key \in (DOMAIN d1) \cup (DOMAIN d2) |-> IF key \in DOMAIN d2 THEN d2[key] ELSE d1[key]]

EmptyDict == [key \in {} |-> 0]

\* A mutant of save_checkpoint: the lists of the configuration are extended
\* in place, not copied.
save_checkpoint_aliased(model, optimizer, num_epoch, train_loss, val_loss, cfgGiven, c, dsk) ==
    LET made == [dsk EXCEPT !.dir = TRUE]
    IN  IF ~cfgGiven
        THEN [ret |-> Raise("AttributeError", {}), cfg |-> c, disk |-> made,
              train_loss |-> train_loss, val_loss |-> val_loss, warned |-> FALSE]
        ELSE LET all_train_loss == c.train_loss \o train_loss
                 all_val_loss == c.val_loss \o val_loss
                 after == [c EXCEPT !.train_loss = all_train_loss, !.val_loss = all_val_loss]
                 checkpoint == [total_epoch_num |-> c.total_epoch_num + num_epoch,
                                model_state_dict |-> model,
                                optimizer_state_dict |-> optimizer,
                                train_loss |-> all_train_loss,
                                val_loss |-> all_val_loss]
             IN  [ret |-> Result("None", "", 0, 0, <<>>, {}, <<>>, NoEvents),
                  cfg |-> after,
                  disk |-> [made EXCEPT !.written = TRUE, !.ckpt = DictOr(after, checkpoint)],
                  train_loss |-> train_loss, val_loss |-> val_loss, warned |-> FALSE]

save_checkpoint(model, optimizer, num_epoch, train_loss, val_loss, cfgGiven, c, dsk) ==
    LET made == [dsk EXCEPT !.dir = TRUE]     \* path.mkdir(parents=True)
    IN  IF ~cfgGiven
        \* cfg.train_loss of None
        THEN [ret |-> Raise("AttributeError", {}), cfg |-> c, disk |-> made,
              train_loss |-> train_loss, val_loss |-> val_loss, warned |-> FALSE]
        ELSE LET all_train_loss == c.train_loss \o train_loss   \* copy(), then extend
                 all_val_loss == c.val_loss \o val_loss
                 checkpoint == [total_epoch_num |-> c.total_epoch_num + num_epoch,
                                model_state_dict |-> model,
                                optimizer_state_dict |-> optimizer,
                                train_loss |-> all_train_loss,
                                val_loss |-> all_val_loss]
             IN  [ret |-> Result("None", "", 0, 0, <<>>, {}, <<>>, NoEvents),
                  cfg |-> c,
                  disk |-> [made EXCEPT !.written = TRUE, !.ckpt = DictOr(c, checkpoint)],
                  train_loss |-> train_loss, val_loss |-> val_loss, warned |-> FALSE]

---------------------------------------------------------------------------
(* The state of the harnesses that are not being driven.                   *)

Call(fn, via, name, kw, k, n, masksGiven, considerGiven, cm, decoderGiven, idxGiven, idx, num_epoch) ==
    [fn |-> fn, via |-> via, name |-> name, kwargs |-> kw, k |-> k, n |-> n,
     masksGiven |-> masksGiven, considerGiven |-> considerGiven, consider |-> cm,
     decoderGiven |-> decoderGiven, idxGiven |-> idxGiven, idx |-> idx,
     num_epoch |-> num_epoch]

NoCall == Call("none", "", "", <<>>, 0, 0, FALSE, FALSE, {}, FALSE, FALSE, 0, 0)

MetricCall(fn, via, name, kw, k, n, masksGiven, considerGiven, cm) ==
    Call(fn, via, name, kw, k, n, masksGiven, considerGiven, cm, FALSE, FALSE, 0, 0)

NoCfg == [given |-> FALSE, dict |-> EmptyDict]
NoRun == [train_loss |-> <<>>, val_loss |-> <<>>, cfg0 |-> EmptyDict, saved_at |-> <<>>]
NoDisk == [dir |-> FALSE, written |-> FALSE, ckpt |-> EmptyDict, warned |-> FALSE]
NoTrain == [pc |-> "off"]

\* The consider_mask arguments: None, or a tensor holding a set of codes.
ConsiderArgs ==
    {[given |-> FALSE, set |-> {}]} \cup {[given |-> TRUE, set |-> s] : s \in SUBSET MaskCodes}

\* The k arguments: from 1 to one more than the vocabulary size.
KArgs == 1..(VocabSize + 1)

\* The n arguments.
NArgs == 0..MaxN

\* The argument combinations tried where the outcome does not depend on
\* consider_mask (a call that raises at once, a call through a binding):
\* None, a set of positive codes, and a set with the code 0.
SomeConsiderArgs ==
    {[given |-> FALSE, set |-> {}], [given |-> TRUE, set |-> {1}],
     [given |-> TRUE, set |-> {0, 2}]}

\* masks, or None with it
MasksAndConsider ==
    {[masksGiven |-> TRUE, c |-> c] : c \in ConsiderArgs}
      \cup {[masksGiven |-> FALSE, c |-> c] : c \in SomeConsiderArgs}

---------------------------------------------------------------------------
(* The metric harness: a batch as the masking policy produces it (the      *)
(* ignore label exactly where the mask-state is 0, the original token id   *)
(* elsewhere) and the logits of the model for it.                          *)

InitMetric ==
    /\ harness = "metric"
    /\ logits \in [Pos -> LogitRows]
    /\ masks \in [Pos -> MaskCodes]
    /\ labels \in [Pos -> Vocab \cup {IGNORE_LABEL_INDEX}]
    /\ \A i \in Pos : (masks[i] = 0) <=> (labels[i] = IGNORE_LABEL_INDEX)
    /\ batch = 1
    /\ call = NoCall
    /\ ret = NoResult
    /\ cfg = NoCfg /\ run = NoRun /\ disk = NoDisk /\ tr = NoTrain

\* The harness that only binds metrics: no batch is involved.
InitBind ==
    /\ harness = "bind"
    /\ logits = <<>> /\ labels = <<>> /\ masks = <<>>
    /\ batch = 1
    /\ call = NoCall
    /\ ret = NoResult
    /\ cfg = NoCfg /\ run = NoRun /\ disk = NoDisk /\ tr = NoTrain

CallCrossEntropy ==
    /\ harness = "metric"
    /\ call.fn = "none"
    /\ \E a \in MasksAndConsider :
          /\ call' = MetricCall("cross_entropy_loss", "direct", "cross_entropy_loss", <<>>,
                                0, 0, a.masksGiven, a.c.given, a.c.set)
          /\ ret' = cross_entropy_loss(logits, labels, a.masksGiven, masks, a.c.given, a.c.set)
    /\ UNCHANGED <<harness, logits, labels, masks, batch, cfg, run, disk, tr>>

CallHitsAtK ==
    /\ harness = "metric"
    /\ call.fn = "none"
    /\ \E k \in KArgs, a \in MasksAndConsider :
          /\ call' = MetricCall("hits_at_k", "direct", "hits_at_k", <<>>,
                                k, 0, a.masksGiven, a.c.given, a.c.set)
          /\ ret' = hits_at_k(logits, labels, k, a.masksGiven, masks, a.c.given, a.c.set)
    /\ UNCHANGED <<harness, logits, labels, masks, batch, cfg, run, disk, tr>>

CallAccuracyWithinN ==
    /\ harness = "metric"
    /\ call.fn = "none"
    /\ \E n \in NArgs, a \in MasksAndConsider :
          /\ call' = MetricCall("accuracy_within_n", "direct", "accuracy_within_n", <<>>,
                                0, n, a.masksGiven, a.c.given, a.c.set)
          /\ ret' = accuracy_within_n(logits, labels, n, a.masksGiven, masks, a.c.given, a.c.set)
    /\ UNCHANGED <<harness, logits, labels, masks, batch, cfg, run, disk, tr>>

\* The bindings a results table is built from: a metric with its own integer
\* parameter fixed, or with nothing fixed.
TableBindings ==
    {<<"hits_at_k", <<<<"k", k>>>>>> : k \in KArgs}
      \cup {<<"accuracy_within_n", <<<<"n", n>>>>>> : n \in NArgs}
      \cup {<<f, <<>>>> : f \in {"cross_entropy_loss", "hits_at_k", "accuracy_within_n"}}

\* metric = bind_metric(func, **kwargs); metric(logits, labels, masks=masks,
\* consider_mask=consider_mask)
CallBoundMetric ==
    /\ harness = "metric"
    /\ call.fn = "none"
    /\ \E b \in TableBindings, c \in SomeConsiderArgs :
          LET p == bind_metric(b[1], b[2])
          IN  /\ call' = MetricCall(p.func, "bound", p.name, p.kwargs,
                                    Lookup(p.kwargs, "k", 0), Lookup(p.kwargs, "n", 0),
                                    TRUE, c.given, c.set)
              /\ ret' = PartialCall(p, logits, labels, TRUE, masks, c.given, c.set)
    /\ UNCHANGED <<harness, logits, labels, masks, batch, cfg, run, disk, tr>>

\* The caller takes the result; the next call may follow.
Return ==
    /\ call.fn # "none"
    /\ call' = NoCall
    /\ ret' = NoResult
    /\ UNCHANGED <<harness, logits, labels, masks, batch, cfg, run, disk, tr>>

\* The keyword arguments bind_metric is given: the keys in keyword order,
\* each with a value.
BindKwargs ==
    {<<>>}
      \cup {<<<<"k", k>>>> : k \in KArgs}
      \cup {<<<<"n", n>>>> : n \in NArgs}
      \cup {<<<<"k", k>>, <<"n", n>>>> : k \in KArgs, n \in NArgs}
      \cup {<<<<"n", n>>, <<"k", k>>>> : k \in KArgs, n \in NArgs}

\* metric = bind_metric(func, **kwargs), not yet called
BindMetric ==
    /\ harness = "bind"
    /\ call.fn = "none"
    /\ \E f \in {"cross_entropy_loss", "hits_at_k", "accuracy_within_n"}, kw \in BindKwargs :
          LET p == bind_metric(f, kw)
          IN  call' = MetricCall("bind_metric", p.func, p.name, p.kwargs,
                                 Lookup(p.kwargs, "k", 0), Lookup(p.kwargs, "n", 0),
                                 FALSE, FALSE, {})
    /\ ret' = NoResult
    /\ UNCHANGED <<harness, logits, labels, masks, batch, cfg, run, disk, tr>>

NextMetric ==
    \/ CallCrossEntropy
    \/ CallHitsAtK
    \/ CallAccuracyWithinN
    \/ CallBoundMetric
    \/ BindMetric
    \/ Return

SpecMetric == (InitMetric \/ InitBind) /\ [][NextMetric]_vars

---------------------------------------------------------------------------
(* The decoding harness: a logits tensor of batch sequences.               *)

InitDecode ==
    /\ harness = "decode"
    /\ logits \in [Pos -> LogitRows]
    /\ batch \in {b \in Pos : NumPos % b = 0}
    /\ labels = <<>>
    /\ masks = <<>>
    /\ call = NoCall
    /\ ret = NoResult
    /\ cfg = NoCfg /\ run = NoRun /\ disk = NoDisk /\ tr = NoTrain

DecodeCall(fn, decoderGiven, idxGiven, idx) ==
    Call(fn, "direct", fn, <<>>, 0, 0, FALSE, FALSE, {}, decoderGiven, idxGiven, idx, 0)

CallDecodeBatch ==
    /\ harness = "decode"
    /\ call.fn = "none"
    /\ \E dg \in BOOLEAN, ig \in BOOLEAN, idx \in (-batch)..batch :
          /\ ig \/ idx = 0
          /\ call' = DecodeCall("decode_batch_perf_logits", dg, ig, idx)
          /\ ret' = decode_batch_perf_logits(logits, batch, dg, ig, idx)
    /\ UNCHANGED <<harness, logits, labels, masks, batch, cfg, run, disk, tr>>

CallDecode ==
    /\ harness = "decode"
    /\ call.fn = "none"
    /\ \E dg \in BOOLEAN :
          /\ call' = DecodeCall("decode_perf_logits", dg, FALSE, 0)
          /\ ret' = decode_perf_logits(logits, batch, dg)
    /\ UNCHANGED <<harness, logits, labels, masks, batch, cfg, run, disk, tr>>

NextDecode == CallDecodeBatch \/ CallDecode \/ Return

SpecDecode == InitDecode /\ [][NextDecode]_vars

---------------------------------------------------------------------------
(* The checkpoint harness: a run that resumes from a configuration, grows  *)
(* its loss lists epoch by epoch and saves checkpoints on the way.  A loss *)
(* is identified by where it was recorded: i for the i-th loss of this     *)
(* run, -i for the i-th loss the configuration brought along.  run.cfg0    *)
(* and run.saved_at are ghosts: the configuration as the run received it,  *)
(* and the length of train_loss at each checkpoint written.                *)

\* ExpConfig.__dict__
CfgDict(train_loss, val_loss, total_epoch_num) ==
    [model_name |-> "velocitymlm", save_dir |-> "save", data_path |-> "data.pt",
     perf_config_name |-> "performance_with_dynamics",
     n_embed |-> 256, max_seq_len |-> 128, n_layers |-> 4, n_heads |-> 4,
     dropout |-> "0.1", lr |-> "1e-4", mlm_prob |-> "0.15", device |-> "mps",
     n_epochs |-> 20, eval_intv |-> 5, save_intv |-> 5,
     special_tokens |-> "None", resume_from |-> "None",
     train_loss |-> train_loss, val_loss |-> val_loss,
     total_epoch_num |-> total_epoch_num]

Earlier(len) == [i \in 1..len |-> -i]

InitCkpt ==
    /\ harness = "ckpt"
    /\ logits = <<>> /\ labels = <<>> /\ masks = <<>>
    /\ batch = 1
    /\ call = NoCall
    /\ ret = NoResult
    /\ \E given \in BOOLEAN, lt \in 0..MaxRun, lv \in 0..MaxRun, total \in 0..MaxRun :
          /\ given \/ (lt = 0 /\ lv = 0 /\ total = 0)
          /\ lv <= lt
          /\ cfg = [given |-> given,
                    dict |-> IF given THEN CfgDict(Earlier(lt), Earlier(lv), total)
                             ELSE EmptyDict]
          /\ run = [train_loss |-> <<>>, val_loss |-> <<>>, cfg0 |-> cfg.dict,
                    saved_at |-> <<>>]
    /\ disk = NoDisk
    /\ tr = NoTrain

\* One more epoch of the run: a training loss, and a validation loss if the
\* epoch was evaluated.
RunEpoch ==
    /\ harness = "ckpt"
    /\ call.fn = "none"
    /\ Len(run.train_loss) < MaxRun
    /\ \E evaluated \in BOOLEAN :
          run' = [run EXCEPT
                    !.train_loss = Append(@, Len(@) + 1),
                    !.val_loss = IF evaluated THEN Append(@, Len(@) + 1) ELSE @]
    /\ UNCHANGED <<harness, logits, labels, masks, batch, call, ret, cfg, disk, tr>>

CallSaveCheckpoint ==
    /\ harness = "ckpt"
    /\ call.fn = "none"
    /\ Len(run.saved_at) < MaxSaves
    /\ \E num_epoch \in 0..MaxRun :
          LET r == save_checkpoint("model_state", "optimizer_state", num_epoch,
                                   run.train_loss, run.val_loss, cfg.given, cfg.dict, disk)
          IN  /\ call' = Call("save_checkpoint", "direct", "save_checkpoint", <<>>, 0, 0,
                              FALSE, FALSE, {}, FALSE, FALSE, 0, num_epoch)
              /\ ret' = r.ret
              /\ cfg' = [cfg EXCEPT !.dict = r.cfg]
              /\ run' = [run EXCEPT
                           !.train_loss = r.train_loss,
                           !.val_loss = r.val_loss,
                           !.saved_at = IF r.ret.kind = "raise" THEN @
                                        ELSE Append(@, Len(run.train_loss))]
              /\ disk' = [r.disk EXCEPT !.warned = r.warned]
    /\ UNCHANGED <<harness, logits, labels, masks, batch, tr>>

NextCkpt == RunEpoch \/ CallSaveCheckpoint \/ Return

SpecCkpt == InitCkpt /\ [][NextCkpt]_vars

---------------------------------------------------------------------------
(* train_mlm and generate_loss_plot of train.py.  The average loss of an   *)
(* epoch is produced by the external model; it is identified by the        *)
(* 1-based number of the epoch that recorded it.  tr.val_at and the at     *)
(* field of a saved checkpoint are ghosts: the epoch of each validation    *)
(* pass and of each save.                                                  *)

\* save_checkpoint of train.py: what torch.save is given
train_save_checkpoint(model, optimizer, epoch, train_loss, val_loss) ==
    [epoch |-> epoch, model_state_dict |-> model, optimizer_state_dict |-> optimizer,
     train_loss |-> train_loss, val_loss |-> val_loss]

\* val_x of generate_loss_plot
val_x(val_loss, eval_intv) == [i \in 1..Len(val_loss) |-> ((i - 1) + 1) * eval_intv]

\* range(1, len(train_loss) + 1)
train_x(train_loss) == [i \in 1..Len(train_loss) |-> i]

Failed(t, exc) == [t EXCEPT !.pc = "raised", !.exc = exc]

InitTrain ==
    /\ harness = "train"
    /\ logits = <<>> /\ labels = <<>> /\ masks = <<>>
    /\ batch = 1
    /\ call = NoCall
    /\ ret = NoResult
    /\ cfg = NoCfg /\ run = NoRun /\ disk = NoDisk
    /\ \E given \in BOOLEAN, n \in 0..MaxEpochs, e \in 0..MaxIntv,
          nt \in 0..MaxBatches, nv \in 0..MaxBatches :
          tr = [pc |-> "call", cfg_given |-> given, n_epochs |-> n, eval_intv |-> e,
                n_train |-> nt, n_val |-> nv, epoch |-> 0, step |-> 0,
                train_loss |-> <<>>, val_loss |-> <<>>, saves |-> <<>>,
                val_at |-> <<>>, plot |-> <<>>, exc |-> ""]

TrainFrame == UNCHANGED <<harness, logits, labels, masks, batch, call, ret, cfg, run, disk>>

\* if cfg is None: raise ValueError; train_loss, val_loss = [], []
EnterTrain ==
    /\ harness = "train" /\ tr.pc = "call"
    /\ tr' = IF tr.cfg_given THEN [tr EXCEPT !.pc = "loop"] ELSE Failed(tr, "ValueError")
    /\ TrainFrame

\* for epoch in range(cfg.n_epochs)
StartEpoch ==
    /\ harness = "train" /\ tr.pc = "loop"
    /\ tr.epoch < tr.n_epochs
    /\ tr' = [tr EXCEPT !.pc = "train", !.step = 0]
    /\ TrainFrame

\* return train_loss, val_loss
ReturnLosses ==
    /\ harness = "train" /\ tr.pc = "loop"
    /\ tr.epoch >= tr.n_epochs
    /\ tr' = [tr EXCEPT !.pc = "done"]
    /\ TrainFrame

\* one batch of the training loader (the loop breaks after it unless NDEBUG)
TrainBatch ==
    /\ harness = "train" /\ tr.pc = "train"
    /\ tr.step < tr.n_train
    /\ tr' = [tr EXCEPT !.step = IF NDEBUG THEN @ + 1 ELSE tr.n_train]
    /\ TrainFrame

\* A mutant of EndTrainEpoch: the interval is tested on the 0-based epoch.
EndTrainEpochZeroBased ==
    /\ harness = "train" /\ tr.pc = "train"
    /\ tr.step = tr.n_train
    /\ tr' = IF tr.n_train = 0
             THEN Failed(tr, "ZeroDivisionError")
             ELSE LET t == [tr EXCEPT !.train_loss = Append(@, tr.epoch + 1)]
                      erange == tr.epoch
                  IN  IF tr.eval_intv = 0
                      THEN Failed(t, "ZeroDivisionError")
                      ELSE IF erange % tr.eval_intv = 0
                      THEN [t EXCEPT !.pc = "validate", !.step = 0]
                      ELSE [t EXCEPT !.pc = "epoch_end"]
    /\ TrainFrame

\* avg_train_loss = total_loss / len(train_dataloader); train_loss.append;
\* erange = epoch + 1 if NDEBUG else epoch; if erange % cfg.eval_intv == 0
EndTrainEpoch ==
    /\ harness = "train" /\ tr.pc = "train"
    /\ tr.step = tr.n_train
    /\ tr' = IF tr.n_train = 0
             THEN Failed(tr, "ZeroDivisionError")
             ELSE LET t == [tr EXCEPT !.train_loss = Append(@, tr.epoch + 1)]
                      erange == IF NDEBUG THEN tr.epoch + 1 ELSE tr.epoch
                  IN  IF tr.eval_intv = 0
                      THEN Failed(t, "ZeroDivisionError")
                      ELSE IF erange % tr.eval_intv = 0
                      THEN [t EXCEPT !.pc = "validate", !.step = 0]
                      ELSE [t EXCEPT !.pc = "epoch_end"]
    /\ TrainFrame

\* one batch of the validation loader
ValBatch ==
    /\ harness = "train" /\ tr.pc = "validate"
    /\ tr.step < tr.n_val
    /\ tr' = [tr EXCEPT !.step = IF NDEBUG THEN @ + 1 ELSE tr.n_val]
    /\ TrainFrame

\* avg_val_loss = total_val_loss / len(val_dataloader); val_loss.append
EndValidation ==
    /\ harness = "train" /\ tr.pc = "validate"
    /\ tr.step = tr.n_val
    /\ tr' = IF tr.n_val = 0
             THEN Failed(tr, "ZeroDivisionError")
             ELSE [tr EXCEPT !.val_loss = Append(@, tr.epoch + 1),
                             !.val_at = Append(@, tr.epoch + 1),
                             !.pc = "save"]
    /\ TrainFrame

\* save_checkpoint(model, optimizer, 0, train_loss, val_loss, ...)
SaveInTrain ==
    /\ harness = "train" /\ tr.pc = "save"
    /\ tr' = [tr EXCEPT
                !.saves = Append(@, [at |-> tr.epoch + 1,
                                     ckpt |-> train_save_checkpoint("model_state",
                                                 "optimizer_state", 0,
                                                 tr.train_loss, tr.val_loss)]),
                !.pc = "epoch_end"]
    /\ TrainFrame

\* the end of the body of the epoch loop
EndEpoch ==
    /\ harness = "train" /\ tr.pc = "epoch_end"
    /\ tr' = [tr EXCEPT !.epoch = @ + 1, !.pc = "loop"]
    /\ TrainFrame

\* generate_loss_plot(train_loss, val_loss, cfg.eval_intv, ...) of run_mlm_train
GenerateLossPlot ==
    /\ harness = "train" /\ tr.pc = "done"
    /\ tr' = [tr EXCEPT !.pc = "plotted",
                        !.plot = [train_x |-> train_x(tr.train_loss),
                                  val_x |-> val_x(tr.val_loss, tr.eval_intv)]]
    /\ TrainFrame

NextTrain ==
    \/ EnterTrain
    \/ StartEpoch
    \/ ReturnLosses
    \/ TrainBatch
    \/ EndTrainEpoch
    \/ ValBatch
    \/ EndValidation
    \/ SaveInTrain
    \/ EndEpoch
    \/ GenerateLossPlot

SpecTrain == InitTrain /\ [][NextTrain]_vars

---------------------------------------------------------------------------
(* The whole program: any of the entry points.                             *)

Init == InitMetric \/ InitBind \/ InitDecode \/ InitCkpt \/ InitTrain

Next == NextMetric \/ NextDecode \/ NextCkpt \/ NextTrain

Spec == Init /\ [][Next]_vars

---------------------------------------------------------------------------
(* Properties.                                                             *)

MetricFns == {"cross_entropy_loss", "hits_at_k", "accuracy_within_n"}
DecodeFns == {"decode_batch_perf_logits", "decode_perf_logits"}

\* A metric has been called (directly or through a binding).
MetricCalled == harness = "metric" /\ call.fn \in MetricFns

\* The positions the validity mask of (masks, consider_mask) holds true.
ValidSet ==
    IF call.considerGiven
    THEN {i \in Pos : masks[i] \in call.consider}
    ELSE {i \in Pos : masks[i] > 0}

SeqSet(q) == {q[j] : j \in 1..Len(q)}

\* C1: a metric called with masks=None and a decoder function called with
\* decoder=None raise ValueError, having read neither logits nor labels,
\* whatever the other arguments are.
C1_MissingArgumentRaises ==
    /\ (MetricCalled /\ ~call.masksGiven) =>
          (ret.kind = "raise" /\ ret.exc = "ValueError" /\ ret.reads = {})
    /\ (call.fn \in DecodeFns /\ ~call.decoderGiven) =>
          (ret.kind = "raise" /\ ret.exc = "ValueError" /\ ret.reads = {})

C1_Witness ==
    /\ call.fn = "decode_batch_perf_logits"
    /\ ~call.decoderGiven
    /\ call.idxGiven /\ call.idx = 1
    /\ ret.kind = "raise"

\* C2: when the validity mask has no true position, cross_entropy_loss returns
\* the int 0 and hits_at_k and accuracy_within_n return nan; none raises.
C2_EmptySelectionSentinel ==
    (MetricCalled /\ call.masksGiven /\ ValidSet = {}) =>
        IF call.fn = "cross_entropy_loss"
        THEN ret.kind = "int" /\ ret.num = 0
        ELSE ret.kind = "nan"

C2_Witness ==
    /\ MetricCalled /\ call.fn = "hits_at_k" /\ call.via = "direct"
    /\ call.masksGiven /\ ~call.considerGiven
    /\ \A i \in Pos : masks[i] = 0
    /\ call.k > VocabSize
    /\ ret.kind = "nan"

\* C3: the positions a metric evaluates are exactly those with masks > 0 when
\* consider_mask is None and exactly those whose code is a member of
\* consider_mask otherwise, in ascending order, and the three metrics select
\* the same positions for the same (masks, consider_mask).
C3_SamePositions ==
    (MetricCalled /\ call.masksGiven /\ ret.kind # "raise") =>
        /\ SeqSet(ret.sel) = ValidSet
        /\ Len(ret.sel) = Cardinality(ValidSet)
        /\ \A a, b \in 1..Len(ret.sel) : a < b => ret.sel[a] < ret.sel[b]
        /\ ret.sel = cross_entropy_loss(logits, labels, TRUE, masks,
                                        call.considerGiven, call.consider).sel
        /\ ret.sel = accuracy_within_n(logits, labels, 0, TRUE, masks,
                                       call.considerGiven, call.consider).sel
        /\ ret.sel = hits_at_k(logits, labels, 1, TRUE, masks,
                               call.considerGiven, call.consider).sel

C3_Witness ==
    /\ MetricCalled /\ call.fn = "accuracy_within_n"
    /\ call.masksGiven /\ call.considerGiven /\ call.consider = {0, 2}
    /\ masks = <<1, 2>>
    /\ ret.sel = <<2>>

\* The positions hits_at_k and accuracy_within_n count hold no ignore label.
CountsNoIgnored ==
    /\ \A j \in 1..Len(ret.sel) : labels[ret.sel[j]] # IGNORE_LABEL_INDEX
    /\ ret.kind = "float" => ret.den = Cardinality({i \in Pos : i \in ValidSet /\ labels[i] # IGNORE_LABEL_INDEX})

RankingCalled ==
    /\ MetricCalled /\ call.fn \in {"hits_at_k", "accuracy_within_n"}
    /\ call.masksGiven
    /\ \A i \in Pos : masks[i] = 0 => labels[i] = IGNORE_LABEL_INDEX

\* C4 as stated: for every consider-set of mask-state codes, no position with
\* the ignore label is counted by hits_at_k or accuracy_within_n.
C4_Original ==
    (RankingCalled /\ (call.considerGiven => call.consider \subseteq MaskCodes)) =>
        CountsNoIgnored

\* C4 as amended: with the ignore label exactly at the positions whose
\* mask-state is 0, and a consider-set that is absent or holds positive codes
\* only, no position with the ignore label is counted by hits_at_k or
\* accuracy_within_n.
C4_NoIgnoredCounted ==
    (/\ RankingCalled
     /\ \A i \in Pos : labels[i] = IGNORE_LABEL_INDEX => masks[i] = 0
     /\ call.considerGiven => (call.consider \subseteq MaskCodes /\ 0 \notin call.consider)) =>
        CountsNoIgnored

C4_Witness ==
    /\ RankingCalled /\ call.fn = "hits_at_k"
    /\ call.considerGiven /\ call.consider = {1, 2}
    /\ \E i \in Pos : masks[i] = 0
    /\ ret.kind = "float" /\ ret.den >= 1

\* C5 as stated: hits_at_k with k >= vocabulary size returns exactly 1.0
\* whenever the valid set is not empty.
C5_Original ==
    (/\ MetricCalled /\ call.fn = "hits_at_k" /\ call.via = "direct"
     /\ call.masksGiven
     /\ call.k >= VocabSize
     /\ ValidSet # {}) =>
        (ret.kind = "float" /\ ret.num = ret.den /\ ret.den > 0)

\* str(value) of the integers bound here, by TLC's own conversion.
Shown(kw, i) == kw[i][1] \o ToString(kw[i][2])

BoundFunc == IF call.fn = "bind_metric" THEN call.via ELSE call.fn

\* C6: bind_metric(func, **kwargs) names the callable func, '_', and the
\* '_'-joined key-value concatenations in keyword order (hits_at_k with k=3
\* is hits_at_k_k3); the callable returns what func returns when called
\* directly with those keyword arguments; and bindings of one function with
\* different arguments have different names.
C6_BindMetric ==
    (call.fn = "bind_metric" \/ call.via = "bound") =>
        LET kw == call.kwargs
        IN  /\ Len(kw) = 0 => call.name = BoundFunc \o "_"
            /\ Len(kw) = 1 => call.name = BoundFunc \o "_" \o Shown(kw, 1)
            /\ Len(kw) = 2 => call.name = BoundFunc \o "_" \o Shown(kw, 1) \o "_" \o Shown(kw, 2)
            /\ (BoundFunc = "hits_at_k" /\ kw = <<<<"k", 3>>>>) => call.name = "hits_at_k_k3"
            /\ \A other \in BindKwargs :
                  other # kw => bind_metric(BoundFunc, other).name # call.name
            /\ call.via = "bound" =>
                  ret = IF call.fn = "hits_at_k"
                        THEN hits_at_k(logits, labels,
                                       IF Len(kw) = 1 THEN kw[1][2] ELSE K_DEFAULT,
                                       TRUE, masks, call.considerGiven, call.consider)
                        ELSE IF call.fn = "accuracy_within_n"
                        THEN accuracy_within_n(logits, labels,
                                       IF Len(kw) = 1 THEN kw[1][2] ELSE N_DEFAULT,
                                       TRUE, masks, call.considerGiven, call.consider)
                        ELSE cross_entropy_loss(logits, labels,
                                       TRUE, masks, call.considerGiven, call.consider)

C6_Witness ==
    /\ call.via = "bound" /\ call.fn = "hits_at_k"
    /\ call.kwargs = <<<<"k", 1>>>>
    /\ call.name = "hits_at_k_k1"
    /\ ret.kind = "float" /\ ret.num = 1 /\ ret.den = 2

\* C7 as stated: with a decoder, decoding yields one event per position of
\* the sequence decoded (of every sequence when idx is None), each the
\* decode_event of the argmax class id of its position, and decode_event is
\* never given a list of ids.
C7_Original ==
    (call.fn \in DecodeFns /\ call.decoderGiven
       /\ (call.idxGiven => call.idx \in 0..(batch - 1))) =>
        LET t == NumPos \div batch
            first == IF call.fn = "decode_perf_logits" THEN 1
                     ELSE IF call.idxGiven THEN call.idx * t + 1
                     ELSE 1
            count == IF call.fn = "decode_perf_logits" \/ call.idxGiven THEN t ELSE NumPos
        IN  /\ ret.kind = "events"
            /\ Len(ret.events) = count
            /\ \A j \in 1..Len(ret.events) :
                  /\ ~ret.events[j].event_of.is_list
                  /\ ret.events[j].event_of.id = ArgMax(logits[first + j - 1])

\* What holds of the decoders: with an index, or through decode_perf_logits,
\* one event per position of the chosen sequence, each from a single class id.
DecodeOneSequence ==
    (call.fn \in DecodeFns /\ call.decoderGiven
       /\ (call.fn = "decode_batch_perf_logits" => call.idxGiven /\ call.idx \in 0..(batch - 1))) =>
        LET t == NumPos \div batch
            first == IF call.fn = "decode_perf_logits" THEN 1 ELSE call.idx * t + 1
        IN  /\ ret.kind = "events"
            /\ Len(ret.events) = t
            /\ \A j \in 1..t :
                  /\ ~ret.events[j].event_of.is_list
                  /\ ret.events[j].event_of.id = ArgMax(logits[first + j - 1])

SavedOk == call.fn = "save_checkpoint" /\ ret.kind = "None"

NoRepeat(q) == \A a, b \in 1..Len(q) : a # b => q[a] # q[b]

\* C8: no call changes its arguments: logits, labels and masks are as they
\* were after every call, save_checkpoint leaves the configuration and the
\* passed loss lists as they were, and so every checkpoint of a run holds
\* cfg.train_loss followed by train_loss and cfg.val_loss followed by val_loss,
\* no entry twice.
C8_ArgumentsUnchanged ==
    [][/\ logits' = logits /\ labels' = labels /\ masks' = masks
       /\ cfg' = cfg
       /\ call'.fn \in (MetricFns \cup DecodeFns \cup {"save_checkpoint"}) =>
             (run'.train_loss = run.train_loss /\ run'.val_loss = run.val_loss)
       /\ (call'.fn = "save_checkpoint" /\ ret'.kind = "None") =>
             /\ disk'.ckpt.train_loss = cfg.dict.train_loss \o run.train_loss
             /\ disk'.ckpt.val_loss = cfg.dict.val_loss \o run.val_loss
             /\ disk'.ckpt.train_loss = run.cfg0.train_loss \o run.train_loss
             /\ disk'.ckpt.val_loss = run.cfg0.val_loss \o run.val_loss
             /\ NoRepeat(disk'.ckpt.train_loss)
             /\ NoRepeat(disk'.ckpt.val_loss)]_vars

C8_Witness ==
    /\ SavedOk
    /\ run.saved_at = <<1, 2>>
    /\ Len(run.cfg0.train_loss) = 2
    /\ disk.ckpt.train_loss = <<-1, -2, 1, 2>>

FiveKeys == {"total_epoch_num", "model_state_dict", "optimizer_state_dict",
             "train_loss", "val_loss"}

\* C9 as stated: save_checkpoint without a config does not fail, warns, and
\* writes exactly the five entries; with a config it writes them merged over
\* the config's fields, total_epoch_num being cfg.total_epoch_num + num_epoch.
C9_Original ==
    call.fn = "save_checkpoint" =>
        /\ ret.kind = "None"
        /\ disk.written
        /\ disk.ckpt.model_state_dict = "model_state"
        /\ disk.ckpt.optimizer_state_dict = "optimizer_state"
        /\ IF cfg.given
           THEN /\ DOMAIN disk.ckpt = (DOMAIN cfg.dict) \cup FiveKeys
                /\ disk.ckpt.total_epoch_num = cfg.dict.total_epoch_num + call.num_epoch
                /\ disk.ckpt.train_loss = cfg.dict.train_loss \o run.train_loss
                /\ disk.ckpt.val_loss = cfg.dict.val_loss \o run.val_loss
                /\ \A key \in (DOMAIN cfg.dict) \ FiveKeys : disk.ckpt[key] = cfg.dict[key]
           ELSE /\ disk.warned
                /\ DOMAIN disk.ckpt = FiveKeys
                /\ disk.ckpt.total_epoch_num = call.num_epoch
                /\ disk.ckpt.train_loss = run.train_loss
                /\ disk.ckpt.val_loss = run.val_loss

\* What holds of save_checkpoint: with a config, the five entries merged over
\* the config's fields.
SaveWithConfig ==
    (call.fn = "save_checkpoint" /\ cfg.given) =>
        /\ ret.kind = "None"
        /\ disk.written
        /\ DOMAIN disk.ckpt = (DOMAIN cfg.dict) \cup FiveKeys
        /\ disk.ckpt.total_epoch_num = cfg.dict.total_epoch_num + call.num_epoch
        /\ \A key \in (DOMAIN cfg.dict) \ FiveKeys : disk.ckpt[key] = cfg.dict[key]

UpTo(n) == [i \in 1..n |-> i]

\* C10: in train_mlm with eval_intv = E >= 1, at the end of epoch e train_loss
\* has e entries and val_loss has e \div E entries; validation passes run
\* exactly at the multiples of E; each is followed by one checkpoint holding
\* the losses up to that epoch, and there is no other checkpoint; the i-th
\* validation loss was recorded at the epoch generate_loss_plot plots it at.
C10_TrainSchedule ==
    (harness = "train" /\ tr.pc # "call" /\ tr.eval_intv >= 1) =>
        LET e == tr.epoch + 1
            E == tr.eval_intv
            nval == Len(tr.val_loss)
        IN  /\ tr.pc = "epoch_end" =>
                  /\ Len(tr.train_loss) = e
                  /\ nval = e \div E
                  /\ SeqSet(tr.val_at) = {x \in 1..e : x % E = 0}
                  /\ Len(tr.saves) = nval
            /\ Len(tr.val_at) = nval
            /\ \A i \in 1..nval : tr.val_at[i] = i * E /\ tr.val_loss[i] = i * E
            /\ Len(tr.saves) \in {nval, nval - 1}
            /\ tr.pc \in {"loop", "train", "done", "plotted"} => Len(tr.saves) = nval
            /\ \A i \in 1..Len(tr.saves) :
                  /\ tr.saves[i].at = tr.val_at[i]
                  /\ tr.saves[i].ckpt.train_loss = UpTo(i * E)
                  /\ tr.saves[i].ckpt.val_loss = [j \in 1..i |-> j * E]
            /\ tr.pc = "plotted" =>
                  /\ tr.plot.val_x = tr.val_at
                  /\ tr.plot.train_x = tr.train_loss
                  /\ Len(tr.train_loss) = tr.n_epochs

C10_Witness ==
    /\ harness = "train" /\ tr.pc = "plotted"
    /\ tr.n_epochs = 3 /\ tr.eval_intv = 2
    /\ tr.train_loss = <<1, 2, 3>>
    /\ tr.val_at = <<2>>
    /\ Len(tr.saves) = 1

============================================================================
